---- MODULE Spec2Model ----
(***************************************************************************)
(* AddressDriverPresets.Presets: the two preset flows, createNewStreamFlow *)
(* and createCollectFlow, as a state machine.                              *)
(*                                                                         *)
(* One behaviour is one call of one of the two functions.  The call runs   *)
(* synchronously up to its first await (action Call); every later action   *)
(* is the settlement of one awaited promise of an external collaborator    *)
(* (a transaction factory or a call encoder) together with the             *)
(* continuation that runs up to the next await.  The validators, the       *)
(* transaction factories and the call encoders are external: a validator   *)
(* either returns or throws (the input `failing` and the `valid` field of  *)
(* a squeeze request say which), a factory or encoder request resolves or  *)
(* rejects, at a time and in an order the program does not control.        *)
(*                                                                         *)
(* SpecConcurrent puts two such calls in flight at once.  SpecReconcile    *)
(* is DripsSubgraph/utils.ts: reconcileDripsSetReceivers called on a log   *)
(* of DripsSetEvents and on the same log in the opposite order, and        *)
(* sortDripsSetEvents called on either array on its own.                   *)
(* SpecHubClient is DripsHubClient.ts: create, then calls of the client's  *)
(* methods.  SpecCodec is the receiver-configuration codec the presets     *)
(* call, written from its description.  SpecFair is Spec with every        *)
(* awaited promise settling.                                               *)
(***************************************************************************)
EXTENDS Integers, Sequences, FiniteSets, TLC

VARIABLES
    fn,           \* the preset function that is called
    payload,      \* its first argument
    skipReceive,  \* createCollectFlow's second argument
    skipSplit,    \* createCollectFlow's third argument
    failing,      \* the validators that throw on this input
    pc,           \* where the body of the async function is suspended
    sq,           \* per squeeze request: the state of its forEach callback
    flow,         \* the array the function fills and returns
    setDripsTx,   \* createNewStreamFlow's first call descriptor, once built
    outcome,      \* how the promise returned to the caller has settled
    log,          \* the calls made to the external collaborators, in order
    dripsSetEvents,  \* reconcileDripsSetReceivers: the caller's arrays, one per call
    passed,          \* the same arrays as the caller first held them
    reconciled,      \* what each call of reconcileDripsSetReceivers gave
    parked,          \* a second, concurrent preset call while the first one runs
    cur,             \* which of two concurrent calls the variables above describe
    provider,        \* DripsHubClient.create's argument
    hubClient,       \* the DripsHubClient instance, once created
    hubCall,         \* the DripsHubClient method being called, with its arguments
    hubPc,           \* where DripsHubClient is waiting
    hubLog,          \* what the call has asked of the validator and the contract
    hubOutcome,      \* how the call has ended
    hubCalls,        \* the number of method calls made on the client
    dripsConfig,     \* DripsReceiverConfiguration: the configuration to pack
    packed,          \* what toUint256 gave for it
    unpacked         \* what fromUint256 gave for the packed value

vars == <<fn, payload, skipReceive, skipSplit, failing, pc, sq, flow,
          setDripsTx, outcome, log, dripsSetEvents, passed, reconciled,
          parked, cur, provider, hubClient, hubCall, hubPc, hubLog, hubOutcome,
          hubCalls, dripsConfig, packed, unpacked>>

----------------------------------------------------------------------------
\* Bounds of the model.

\* The longest squeezeArgs list.
MaxSqueeze == 2

\* The longest currentReceivers / newReceivers list.
MaxReceivers == 2

\* The longest userMetadata list.
MaxMetadata == 1

----------------------------------------------------------------------------
\* Values.

SeqsUpTo(S, n) == UNION {[1..k -> S] : k \in 0..n}

\* A drips receiver of a payload.  userId "undefined" is an entry without a
\* userId, on which r.userId.toString() throws.
DripsReceivers == [userId : {"1", "2", "undefined"}, config : {1}]

\* A user metadata entry.  The key "keyTooLong" is one that
\* Utils.Metadata.createFromStrings cannot turn into bytes32.
UserMetadata == [key : {"key", "keyTooLong"}, value : {"value"}]

\* One squeeze request; `valid` is what validateSqueezeDripsInput makes of it.
\* A request carries a userId and a tokenAddress of its own: those of the
\* payload, or others.
SqueezeArgs ==
    {[senderId |-> s, valid |-> v, userId |-> of.userId, tokenAddress |-> of.tokenAddress] :
        s \in 1..(MaxSqueeze + 1), v \in BOOLEAN,
        of \in {[userId |-> "user", tokenAddress |-> "token"],
                [userId |-> "user2", tokenAddress |-> "token2"]}}

\* The squeezeArgs lists: request i names sender i.
SqueezeArgsLists ==
    {l \in SeqsUpTo(SqueezeArgs, MaxSqueeze) : \A i \in DOMAIN l : l[i].senderId = i}

NoTx == [call |-> "none", args |-> <<>>]

NoError == [code |-> "none", from |-> "none"]

\* The validators of createCollectFlow's and createNewStreamFlow's own steps.
CollectValidators == {"receiveDrips", "split", "collect"}

StreamValidators == {"setDrips", "emitUserMetadata"}

\* null and undefined
AbsentPayloads == {[kind |-> "null"], [kind |-> "undefined"]}

\* NewStreamFlowPayload
NewStreamFlowPayload(signer, cr, nr, um) ==
    [kind |-> "object", signer |-> signer, driverAddress |-> "driver",
     tokenAddress |-> "token", currentReceivers |-> cr, newReceivers |-> nr,
     balanceDelta |-> 1, transferToAddress |-> "to", userMetadata |-> um]

\* CollectFlowPayload; squeezeArgs is optional
CollectFlowPayload(signer, defined, list) ==
    [kind |-> "object", signer |-> signer, driverAddress |-> "driver",
     dripsHubAddress |-> "hub", userId |-> "user", tokenAddress |-> "token",
     maxCycles |-> 1, currentReceivers |-> <<[userId |-> "1", weight |-> 1]>>,
     transferToAddress |-> "to",
     squeezeArgs |-> [defined |-> defined, list |-> list]]

\* The payloads of a createNewStreamFlow call: absent, an object whose signer
\* is missing (such as {}) or has no provider, or a complete one.
NewStreamFlowPayloads ==
    AbsentPayloads
    \cup {NewStreamFlowPayload(s, <<>>, <<>>, <<>>) : s \in {"undefined", "noProvider"}}
    \cup {NewStreamFlowPayload("connected", cr, nr, um) :
            cr \in SeqsUpTo(DripsReceivers, MaxReceivers),
            nr \in SeqsUpTo(DripsReceivers, MaxReceivers),
            um \in SeqsUpTo(UserMetadata, MaxMetadata)}

\* A CollectFlowPayload object that arrives without its userId: the
\* destructuring binds userId to undefined.
withoutUserId(p) == [p EXCEPT !.userId = "undefined"]

\* The payloads of a createCollectFlow call: absent, an object whose signer
\* is missing (such as {}) or has no provider, a complete one, or one with a
\* connected signer and no userId.
CollectFlowPayloads ==
    AbsentPayloads
    \cup {CollectFlowPayload(s, FALSE, <<>>) : s \in {"undefined", "noProvider"}}
    \cup {CollectFlowPayload("connected", FALSE, <<>>)}
    \cup {CollectFlowPayload("connected", TRUE, l) : l \in SqueezeArgsLists}
    \cup {withoutUserId(CollectFlowPayload("connected", FALSE, <<>>))}
    \cup {withoutUserId(CollectFlowPayload("connected", TRUE, l)) : l \in SqueezeArgsLists}

----------------------------------------------------------------------------
\* Helpers of the source.

isNullOrUndefined(p) == p.kind \in {"null", "undefined"}

\* Mutant: the signer is checked, its provider is not.
signerProvider_signerOnly(p) == p.signer # "undefined"

\* signer?.provider
signerProvider(p) == p.signer = "connected"

\* squeezeArgs?.forEach iterates nothing when squeezeArgs is undefined
squeezeList(p) ==
    IF "squeezeArgs" \notin DOMAIN p \/ ~p.squeezeArgs.defined THEN <<>>
    ELSE p.squeezeArgs.list

\* What a call encoder resolves to: an opaque descriptor of the call it was
\* asked for.
Encode(call, args) == [call |-> call, args |-> args]

Ev(e, step, i) == [ev |-> e, step |-> step, idx |-> i]

\* Mutant: the absent payload is reported as an invalid argument.
argumentMissingError_asArgumentError == [code |-> "INVALID_ARGUMENT", from |-> "payload"]

argumentMissingError == [code |-> "MISSING_ARGUMENT", from |-> "payload"]

argumentError == [code |-> "INVALID_ARGUMENT", from |-> "signer"]

validatorError(step) == [code |-> "VALIDATION", from |-> step]

rejection(step) == [code |-> "REJECTED", from |-> step]

\* The promise of the async function settles.
Rejected(err) == [kind |-> "error", error |-> err, len |-> 0]

Resolved(batch) == [kind |-> "batch", error |-> NoError, len |-> Len(batch)]

Pending == [kind |-> "pending", error |-> NoError, len |-> 0]

----------------------------------------------------------------------------
\* createCollectFlow, one operator per stretch of code between two awaits.
\* Each takes the log and the flow array as they are when the stretch begins
\* and gives the position the body is suspended at (or "done"), the log, the
\* flow array and the outcome when the stretch ends.

Suspend(at, lg, fl) == [pc |-> at, log |-> lg, flow |-> fl, outcome |-> Pending]

Throw(err, lg, fl) == [pc |-> "done", log |-> lg, flow |-> fl, outcome |-> Rejected(err)]

Return(lg, fl) == [pc |-> "done", log |-> lg, flow |-> fl, outcome |-> Resolved(fl)]

\* validateCollectInput, then AddressDriverTxFactory.create is requested
collectStep(lg, fl) ==
    LET lg1 == Append(lg, Ev("validate", "collect", 0)) IN
    IF "collect" \in failing
    THEN Throw(validatorError("collect"), lg1, fl)
    ELSE Suspend("awaitDriverFactory",
                 Append(lg1, Ev("invoke", "AddressDriverTxFactory.create", 0)), fl)

\* Mutant: the split validator's failure does not stop the flow.
splitStep_validatorIgnored(lg, fl) ==
    IF skipSplit THEN collectStep(lg, fl)
    ELSE Suspend("awaitSplit",
                 Append(Append(lg, Ev("validate", "split", 0)), Ev("invoke", "split", 0)), fl)

\* if (!skipSplit): validateSplitInput, then the split encoder is requested
splitStep(lg, fl) ==
    IF skipSplit THEN collectStep(lg, fl)
    ELSE LET lg1 == Append(lg, Ev("validate", "split", 0)) IN
         IF "split" \in failing
         THEN Throw(validatorError("split"), lg1, fl)
         ELSE Suspend("awaitSplit", Append(lg1, Ev("invoke", "split", 0)), fl)

\* if (!skipReceive): validateReceiveDripsInput, then the receiveDrips encoder
\* is requested
receiveStep(lg, fl) ==
    IF skipReceive THEN splitStep(lg, fl)
    ELSE LET lg1 == Append(lg, Ev("validate", "receiveDrips", 0)) IN
         IF "receiveDrips" \in failing
         THEN Throw(validatorError("receiveDrips"), lg1, fl)
         ELSE Suspend("awaitReceive", Append(lg1, Ev("invoke", "receiveDrips", 0)), fl)

\* The body of the forEach callback up to its await: the request is validated
\* and the squeezeDrips encoder requested.  A validator that throws rejects
\* the promise the callback returns, which forEach drops.
squeezeCallback(i, s, lg) ==
    LET lg1 == Append(lg, Ev("validate", "squeezeDrips", i)) IN
    IF ~squeezeList(payload)[i].valid
    THEN [sq |-> [s EXCEPT ![i] = "threw"], log |-> lg1]
    ELSE [sq |-> [s EXCEPT ![i] = "pending"],
          log |-> Append(lg1, Ev("invoke", "squeezeDrips", i))]

\* squeezeArgs?.forEach(async (args) => ...): the callbacks are started one
\* after the other, none is awaited.
RECURSIVE forEachSqueeze(_, _, _)
forEachSqueeze(i, s, lg) ==
    IF i > Len(squeezeList(payload)) THEN [sq |-> s, log |-> lg]
    ELSE LET r == squeezeCallback(i, s, lg) IN forEachSqueeze(i + 1, r.sq, r.log)

\* What callback i hands to validateSqueezeDripsInput: args.userId,
\* args.tokenAddress, args.senderId (historyHash and dripsHistory are not
\* modelled).
validatedSqueezeInput(i) ==
    LET args == squeezeList(payload)[i] IN <<args.userId, args.tokenAddress, args.senderId>>

\* The descriptor the squeezeDrips encoder is asked for by callback i.
squeezeTx(i) ==
    Encode("squeezeDrips", <<payload.userId, payload.tokenAddress,
                             squeezeList(payload)[i].senderId>>)

receiveTx == Encode("receiveDrips", <<payload.userId, payload.tokenAddress, payload.maxCycles>>)

splitTx == Encode("split", <<payload.userId, payload.tokenAddress, payload.currentReceivers>>)

collectTx == Encode("collect", <<payload.tokenAddress, payload.transferToAddress>>)

\* createCollectFlow up to its first await.
createCollectFlow ==
    IF isNullOrUndefined(payload) THEN Throw(argumentMissingError, log, flow)
    ELSE IF ~signerProvider(payload) THEN Throw(argumentError, log, flow)
    ELSE Suspend("awaitHubFactory",
                 Append(log, Ev("invoke", "DripsHubTxFactory.create", 0)), <<>>)

\* Taking the result of a stretch.
Take(r) ==
    /\ pc' = r.pc
    /\ log' = r.log
    /\ flow' = r.flow
    /\ outcome' = r.outcome

\* The state of the subgraph utilities, which no preset touches.
subgraphVars == <<dripsSetEvents, passed, reconciled>>

\* The other of two concurrent calls, which a step of this call leaves alone.
concurrentVars == <<parked, cur>>

\* The state of DripsHubClient, which no preset touches.
hubVars == <<provider, hubClient, hubCall, hubPc, hubLog, hubOutcome, hubCalls>>

\* No DripsHubClient has been asked for.
NoProvider == [defined |-> FALSE, chainId |-> 0]

NoClient == [defined |-> FALSE]

NoCall == [method |-> "none", args |-> <<>>]

NotCalledYet == [kind |-> "none", error |-> NoError]

NoHubClient ==
    /\ provider = NoProvider
    /\ hubClient = NoClient
    /\ hubCall = NoCall
    /\ hubPc = "idle"
    /\ hubLog = <<>>
    /\ hubOutcome = NotCalledYet
    /\ hubCalls = 0

\* The state of the receiver-configuration codec, which no preset touches.
codecVars == <<dripsConfig, packed, unpacked>>

NotComputed == [kind |-> "none", value |-> 0]

NoCodec ==
    /\ dripsConfig = [dripId |-> 0, amountPerSec |-> 0, start |-> 0, duration |-> 0]
    /\ packed = NotComputed
    /\ unpacked = NotComputed

Inputs == <<fn, payload, skipReceive, skipSplit, failing, subgraphVars, concurrentVars,
            hubVars, codecVars>>

\* await DripsHubTxFactory.create(...) settles; on success the forEach runs
\* and the body goes on to the receive step.
HubFactorySettles ==
    /\ pc = "awaitHubFactory"
    /\ \E ok \in BOOLEAN :
        IF ok
        THEN LET lg == Append(log, Ev("resolve", "DripsHubTxFactory.create", 0))
                 r  == forEachSqueeze(1, sq, lg)
             IN /\ sq' = r.sq
                /\ Take(receiveStep(r.log, flow))
        ELSE /\ sq' = sq
             /\ Take(Throw(rejection("DripsHubTxFactory.create"),
                           Append(log, Ev("reject", "DripsHubTxFactory.create", 0)), flow))
    /\ UNCHANGED <<Inputs, setDripsTx>>

\* The squeezeDrips request of callback i settles: the callback pushes the
\* descriptor, or its promise is rejected and dropped.  Nothing ties this to
\* the position of the function's body.
SqueezeSettles(i) ==
    /\ sq[i] = "pending"
    /\ \E ok \in BOOLEAN :
        IF ok
        THEN /\ sq' = [sq EXCEPT ![i] = "pushed"]
             /\ flow' = Append(flow, squeezeTx(i))
             /\ log' = Append(Append(log, Ev("resolve", "squeezeDrips", i)),
                              Ev("push", "squeezeDrips", i))
        ELSE /\ sq' = [sq EXCEPT ![i] = "rejected"]
             /\ flow' = flow
             /\ log' = Append(log, Ev("reject", "squeezeDrips", i))
    /\ UNCHANGED <<Inputs, pc, setDripsTx, outcome>>

\* await dripsHubTxFactory.receiveDrips(...) settles
ReceiveSettles ==
    /\ pc = "awaitReceive"
    /\ \E ok \in BOOLEAN :
        IF ok
        THEN Take(splitStep(Append(Append(log, Ev("resolve", "receiveDrips", 0)),
                                   Ev("push", "receiveDrips", 0)),
                            Append(flow, receiveTx)))
        ELSE Take(Throw(rejection("receiveDrips"),
                        Append(log, Ev("reject", "receiveDrips", 0)), flow))
    /\ UNCHANGED <<Inputs, sq, setDripsTx>>

\* await dripsHubTxFactory.split(...) settles
SplitSettles ==
    /\ pc = "awaitSplit"
    /\ \E ok \in BOOLEAN :
        IF ok
        THEN Take(collectStep(Append(Append(log, Ev("resolve", "split", 0)),
                                     Ev("push", "split", 0)),
                              Append(flow, splitTx)))
        ELSE Take(Throw(rejection("split"), Append(log, Ev("reject", "split", 0)), flow))
    /\ UNCHANGED <<Inputs, sq, setDripsTx>>

\* await AddressDriverTxFactory.create(...) settles in createCollectFlow; on
\* success the collect encoder is requested
DriverFactorySettles ==
    /\ pc = "awaitDriverFactory"
    /\ \E ok \in BOOLEAN :
        IF ok
        THEN Take(Suspend("awaitCollect",
                          Append(Append(log, Ev("resolve", "AddressDriverTxFactory.create", 0)),
                                 Ev("invoke", "collect", 0)),
                          flow))
        ELSE Take(Throw(rejection("AddressDriverTxFactory.create"),
                        Append(log, Ev("reject", "AddressDriverTxFactory.create", 0)), flow))
    /\ UNCHANGED <<Inputs, sq, setDripsTx>>

\* await addressDriverTxFactory.collect(...) settles; flow.push(collectTx);
\* return flow
CollectSettles ==
    /\ pc = "awaitCollect"
    /\ \E ok \in BOOLEAN :
        IF ok
        THEN Take(Return(Append(Append(log, Ev("resolve", "collect", 0)),
                                Ev("push", "collect", 0)),
                         Append(flow, collectTx)))
        ELSE Take(Throw(rejection("collect"), Append(log, Ev("reject", "collect", 0)), flow))
    /\ UNCHANGED <<Inputs, sq, setDripsTx>>

----------------------------------------------------------------------------
\* createNewStreamFlow.

\* r.userId.toString() of the receivers handed to validateSetDripsInput throws
\* on an entry without a userId.
mappable(receivers) == \A k \in DOMAIN receivers : receivers[k].userId # "undefined"

typeError == [code |-> "TypeError", from |-> "receivers"]

\* Utils.Metadata.createFromStrings(m.key, m.value)
createFromStrings(m) == [key |-> <<"bytes32", m.key>>, value |-> <<"bytes", m.value>>]

encodable(userMetadata) == \A k \in DOMAIN userMetadata : userMetadata[k].key # "keyTooLong"

metadataError == [code |-> "Error", from |-> "createFromStrings"]

\* Mutant: the user metadata is not validated.
validateStream_metadataUnchecked(lg, fl) ==
    LET lg1 == Append(lg, Ev("validate", "setDrips", 0)) IN
    IF "setDrips" \in failing THEN Throw(validatorError("setDrips"), lg1, fl)
    ELSE Suspend("awaitStreamFactory",
                 Append(lg1, Ev("invoke", "AddressDriverTxFactory.create", 0)), fl)

\* validateSetDripsInput, then validateEmitUserMetadataInput, then
\* AddressDriverTxFactory.create is requested
validateStream(lg, fl) ==
    LET lg1 == Append(lg, Ev("validate", "setDrips", 0))
        lg2 == Append(lg1, Ev("validate", "emitUserMetadata", 0))
    IN IF "setDrips" \in failing THEN Throw(validatorError("setDrips"), lg1, fl)
       ELSE IF "emitUserMetadata" \in failing
       THEN Throw(validatorError("emitUserMetadata"), lg2, fl)
       ELSE Suspend("awaitStreamFactory",
                    Append(lg2, Ev("invoke", "AddressDriverTxFactory.create", 0)), fl)

\* createNewStreamFlow up to its first await.
createNewStreamFlow ==
    IF isNullOrUndefined(payload) THEN Throw(argumentMissingError, log, flow)
    ELSE IF ~signerProvider(payload) THEN Throw(argumentError, log, flow)
    ELSE IF ~(mappable(payload.currentReceivers) /\ mappable(payload.newReceivers))
    THEN Throw(typeError, log, flow)
    ELSE validateStream(log, flow)

\* Mutant: the receiver lists are handed over in reverse order.
Reversed(list) == [k \in DOMAIN list |-> list[Len(list) + 1 - k]]

newSetDripsTx_receiversReversed ==
    Encode("setDrips", <<payload.tokenAddress, Reversed(payload.currentReceivers),
                         payload.balanceDelta, Reversed(payload.newReceivers), 0, 0,
                         payload.transferToAddress>>)

\* The descriptor asked of the setDrips encoder.
newSetDripsTx ==
    Encode("setDrips", <<payload.tokenAddress, payload.currentReceivers, payload.balanceDelta,
                         payload.newReceivers, 0, 0, payload.transferToAddress>>)

\* The descriptor asked of the emitUserMetadata encoder.
emitUserMetadataTx ==
    Encode("emitUserMetadata",
           <<[k \in DOMAIN payload.userMetadata |-> createFromStrings(payload.userMetadata[k])]>>)

\* Mutant: the two descriptors are returned in the wrong order.
streamBatch_swapped(first, second) == <<second, first>>

\* Mutant: the batch holds the first descriptor twice.
streamBatch_firstTwice(first, second) == <<first, first>>

\* return [setDripsTx, emitUserMetadataTx]
streamBatch(first, second) == <<first, second>>

\* await AddressDriverTxFactory.create(...) settles in createNewStreamFlow; on
\* success the setDrips encoder is requested
StreamFactorySettles ==
    /\ pc = "awaitStreamFactory"
    /\ \E ok \in BOOLEAN :
        IF ok
        THEN Take(Suspend("awaitSetDrips",
                          Append(Append(log, Ev("resolve", "AddressDriverTxFactory.create", 0)),
                                 Ev("invoke", "setDrips", 0)),
                          flow))
        ELSE Take(Throw(rejection("AddressDriverTxFactory.create"),
                        Append(log, Ev("reject", "AddressDriverTxFactory.create", 0)), flow))
    /\ UNCHANGED <<Inputs, sq, setDripsTx>>

\* await addressDriverTxFactory.setDrips(...) settles; the metadata is turned
\* into bytes and the emitUserMetadata encoder requested
SetDripsSettles ==
    /\ pc = "awaitSetDrips"
    /\ \E ok \in BOOLEAN :
        IF ok
        THEN LET lg == Append(log, Ev("resolve", "setDrips", 0)) IN
             /\ setDripsTx' = newSetDripsTx
             /\ IF encodable(payload.userMetadata)
                THEN Take(Suspend("awaitEmit", Append(lg, Ev("invoke", "emitUserMetadata", 0)), flow))
                ELSE Take(Throw(metadataError, lg, flow))
        ELSE /\ setDripsTx' = setDripsTx
             /\ Take(Throw(rejection("setDrips"), Append(log, Ev("reject", "setDrips", 0)), flow))
    /\ UNCHANGED <<Inputs, sq>>

\* await addressDriverTxFactory.emitUserMetadata(...) settles; the batch of
\* the two descriptors is returned
EmitSettles ==
    /\ pc = "awaitEmit"
    /\ \E ok \in BOOLEAN :
        IF ok
        THEN Take(Return(Append(log, Ev("resolve", "emitUserMetadata", 0)),
                         streamBatch(setDripsTx, emitUserMetadataTx)))
        ELSE Take(Throw(rejection("emitUserMetadata"),
                        Append(log, Ev("reject", "emitUserMetadata", 0)), flow))
    /\ UNCHANGED <<Inputs, sq, setDripsTx>>

----------------------------------------------------------------------------
\* The specification.

\* The caller has its arguments and has not called yet.
Init ==
    /\ fn \in {"createNewStreamFlow", "createCollectFlow"}
    /\ IF fn = "createNewStreamFlow"
       THEN /\ payload \in NewStreamFlowPayloads
            /\ skipReceive = FALSE
            /\ skipSplit = FALSE
            /\ failing \in SUBSET StreamValidators
       ELSE /\ payload \in CollectFlowPayloads
            /\ skipReceive \in BOOLEAN
            /\ skipSplit \in BOOLEAN
            /\ failing \in SUBSET CollectValidators
    /\ pc = "start"
    /\ sq = [i \in DOMAIN squeezeList(payload) |-> "notStarted"]
    /\ flow = <<>>
    /\ setDripsTx = NoTx
    /\ outcome = Pending
    /\ log = <<>>
    /\ dripsSetEvents = <<>>
    /\ passed = <<>>
    /\ reconciled = <<>>
    /\ parked = <<>>
    /\ cur = 1
    /\ NoHubClient
    /\ NoCodec

\* The call: the function runs up to its first await.
Call ==
    /\ pc = "start"
    /\ Take(IF fn = "createNewStreamFlow" THEN createNewStreamFlow ELSE createCollectFlow)
    /\ UNCHANGED <<Inputs, sq, setDripsTx>>

Next ==
    \/ Call
    \/ HubFactorySettles
    \/ \E i \in DOMAIN sq : SqueezeSettles(i)
    \/ ReceiveSettles
    \/ SplitSettles
    \/ DriverFactorySettles
    \/ CollectSettles
    \/ StreamFactorySettles
    \/ SetDripsSettles
    \/ EmitSettles

Spec == Init /\ [][Next]_vars

----------------------------------------------------------------------------
\* Vocabulary of the properties.

IsCollect == fn = "createCollectFlow"

IsStream == fn = "createNewStreamFlow"

\* The call has resolved with a batch: the batch is the array `flow` itself.
Returned == outcome.kind = "batch"

Failed == outcome.kind = "error"

\* The number of squeeze requests supplied.
NumSqueeze == Len(squeezeList(payload))

AllRequestsValid == \A i \in DOMAIN squeezeList(payload) : squeezeList(payload)[i].valid

Idx(e) == {k \in DOMAIN log : log[k] = e}

Count(e) == Cardinality(Idx(e))

Happened(e) == Idx(e) # {}

\* Every occurrence of e2 comes after an occurrence of e1.
Precedes(e1, e2) == \A k2 \in Idx(e2) : \E k1 \in Idx(e1) : k1 < k2

Validated(step) == Ev("validate", step, 0)

Invoked(step) == Ev("invoke", step, 0)

\* The validator of a step of the function's body was called and threw.
ValidatorThrew(step) == Happened(Validated(step)) /\ step \in failing

\* The validator of squeeze request i was called and threw.
SqueezeValidatorThrew(i) == sq[i] = "threw"

\* Some validator, factory or encoder has been called.
CollaboratorCalled == log # <<>>

\* The encoder requests of the call that have not settled.
PendingEncoderRequests ==
    {<<"squeezeDrips", i>> : i \in {j \in DOMAIN sq : sq[j] = "pending"}}
    \cup (IF pc = "awaitReceive" THEN {<<"receiveDrips", 0>>} ELSE {})
    \cup (IF pc = "awaitSplit" THEN {<<"split", 0>>} ELSE {})
    \cup (IF pc = "awaitCollect" THEN {<<"collect", 0>>} ELSE {})
    \cup (IF pc = "awaitSetDrips" THEN {<<"setDrips", 0>>} ELSE {})
    \cup (IF pc = "awaitEmit" THEN {<<"emitUserMetadata", 0>>} ELSE {})

Opt(skip) == IF skip THEN 0 ELSE 1

----------------------------------------------------------------------------
\* createCollectFlow: the shape of the batch.

\* C1: in the batch createCollectFlow returns, the squeezeDrips calls occupy
\* the first n positions in the order of the n requests, and no squeezeDrips
\* call comes after them (stated for requests that all pass validation).
C1_SqueezeCallsFirstInOrder ==
    (IsCollect /\ Returned /\ AllRequestsValid) =>
        /\ Len(flow) >= NumSqueeze
        /\ \A i \in 1..NumSqueeze : flow[i] = squeezeTx(i)
        /\ \A k \in DOMAIN flow : k > NumSqueeze => flow[k].call # "squeezeDrips"

\* C2: the length of the batch at the moment createCollectFlow resolves is
\* the number of squeeze requests, plus one for receiveDrips unless skipped,
\* plus one for split unless skipped, plus one for collect (stated for
\* requests that all pass validation).
C2_BatchLengthAtResolve ==
    (IsCollect /\ Returned /\ AllRequestsValid) =>
        outcome.len = NumSqueeze + Opt(skipReceive) + Opt(skipSplit) + 1

\* C3: in the batch createCollectFlow has returned, the collect call occurs
\* exactly once and is the last element.
C3_CollectOnceAndLast ==
    (IsCollect /\ Returned) =>
        /\ Cardinality({k \in DOMAIN flow : flow[k].call = "collect"}) = 1
        /\ flow[Len(flow)].call = "collect"

\* C4: createCollectFlow is all-or-nothing: when the validator of any squeeze
\* request or of the receiveDrips, split or collect step has thrown, no batch
\* is returned to the caller.
C4_AllOrNothing ==
    (IsCollect
       /\ (\/ \E i \in DOMAIN sq : SqueezeValidatorThrew(i)
           \/ \E step \in CollectValidators : ValidatorThrew(step))) =>
        ~Returned

\* C5: when the split validator throws in a createCollectFlow call with
\* skipReceive = false, skipSplit = false and at least one squeeze request,
\* the call fails with the split validator's error, returns no batch, and the
\* split encoder, the collect validator, the driver's factory and the collect
\* encoder are never called.
C5_SplitValidatorFailure ==
    (IsCollect /\ ~skipReceive /\ ~skipSplit /\ NumSqueeze >= 1 /\ ValidatorThrew("split")) =>
        /\ outcome = Rejected(validatorError("split"))
        /\ ~Happened(Invoked("split"))
        /\ ~Happened(Validated("collect"))
        /\ ~Happened(Invoked("AddressDriverTxFactory.create"))
        /\ ~Happened(Invoked("collect"))
        /\ \A k \in DOMAIN flow : flow[k].call \notin {"split", "collect"}

\* A squeeze call and the receiveDrips call were built and then the split
\* validator threw: the call has failed with that error.
C5_Witness ==
    /\ IsCollect /\ ~skipReceive /\ ~skipSplit /\ NumSqueeze >= 1
    /\ ValidatorThrew("split")
    /\ \E i \in DOMAIN sq : sq[i] = "pushed"
    /\ Happened(Ev("push", "receiveDrips", 0))
    /\ outcome = Rejected(validatorError("split"))

\* C6: at most one call-encoder request of a call is pending at any time.
C6_AtMostOnePendingEncoderRequest ==
    Cardinality(PendingEncoderRequests) <= 1

----------------------------------------------------------------------------
\* createNewStreamFlow.

\* C7: a createNewStreamFlow call that succeeds returns exactly two calls,
\* the setDrips encoder's descriptor and then the emitUserMetadata encoder's,
\* and the emitUserMetadata encoder is requested only after the setDrips
\* encoder's request has resolved.
C7_NewStreamBatch ==
    IsStream =>
        /\ Returned =>
            /\ Len(flow) = 2
            /\ flow[1].call = "setDrips"
            /\ flow[1] = setDripsTx
            /\ flow[2].call = "emitUserMetadata"
            /\ outcome.len = 2
        /\ Precedes(Ev("resolve", "setDrips", 0), Invoked("emitUserMetadata"))
        /\ Precedes(Invoked("setDrips"), Ev("resolve", "setDrips", 0))

\* A createNewStreamFlow call with a receiver and a metadata entry returned.
C7_Witness ==
    /\ IsStream /\ Returned
    /\ Len(payload.currentReceivers) = 1
    /\ Len(payload.userMetadata) = 1
    /\ Len(flow) = 2

\* C8: a null or undefined payload makes either flow fail with a
\* MissingArgument error before any validator, factory or encoder is called.
C8_AbsentPayload ==
    (payload.kind \in {"null", "undefined"} /\ pc # "start") =>
        /\ outcome = Rejected(argumentMissingError)
        /\ outcome.error.code = "MISSING_ARGUMENT"
        /\ ~CollaboratorCalled
        /\ pc = "done"

\* createCollectFlow was called with undefined and has failed.
C8_Witness ==
    /\ IsCollect /\ payload.kind = "undefined" /\ Failed

\* C9: a payload that is present but lacks its primary key, or whose signer
\* is missing (as in {}) or is not connected to a provider, makes either flow
\* fail with an InvalidArgument error before any validator, factory or
\* encoder is called. The key of a CollectFlowPayload is its userId; a
\* NewStreamFlowPayload has none.
C9_MissingKeyOrDisconnectedSigner ==
    (/\ payload.kind = "object"
     /\ \/ IsCollect /\ payload.userId = "undefined"
        \/ payload.signer # "connected"
     /\ pc # "start") =>
        /\ Failed
        /\ outcome.error.code = "INVALID_ARGUMENT"
        /\ ~CollaboratorCalled
        /\ pc = "done"

\* The signer half of C9 on its own: a present payload whose signer is
\* missing or is not connected to a provider makes either flow fail with an
\* InvalidArgument error before any validator, factory or encoder is called.
C9_DisconnectedSigner ==
    (payload.kind = "object" /\ payload.signer # "connected" /\ pc # "start") =>
        /\ Failed
        /\ outcome.error.code = "INVALID_ARGUMENT"
        /\ ~CollaboratorCalled
        /\ pc = "done"

\* createNewStreamFlow was called with a signer that has no provider and has
\* failed.
C9_Witness ==
    /\ IsStream /\ payload.kind = "object" /\ payload.signer = "noProvider" /\ Failed

\* C10: in createNewStreamFlow the setDrips validator and then the user
\* metadata validator each run exactly once before the transaction factory
\* is requested and before any encoder is requested; when either validator
\* throws, the call fails with that validator's error and no call descriptor
\* is built.
C10_ValidateBeforeBuild ==
    IsStream =>
        /\ Count(Validated("setDrips")) <= 1
        /\ Count(Validated("emitUserMetadata")) <= 1
        /\ \A k \in DOMAIN log : log[k].ev = "invoke" =>
            \E a, b \in 1..(k - 1) :
                /\ a < b
                /\ log[a] = Validated("setDrips")
                /\ log[b] = Validated("emitUserMetadata")
        /\ \A step \in StreamValidators : ValidatorThrew(step) =>
            /\ outcome = Rejected(validatorError(step))
            /\ \A k \in DOMAIN log : log[k].ev # "invoke"
            /\ setDripsTx = NoTx
            /\ flow = <<>>

\* The setDrips validator passed, the metadata validator threw, and the call
\* failed with nothing requested.
C10_Witness ==
    /\ IsStream
    /\ Count(Validated("setDrips")) = 1
    /\ ValidatorThrew("emitUserMetadata")
    /\ outcome = Rejected(validatorError("emitUserMetadata"))

----------------------------------------------------------------------------
\* createCollectFlow: the validators of the steps of its body.

\* Every squeeze call has been appended before position k of the log.
SqueezeCallsAppendedBefore(k) ==
    \A i \in 1..NumSqueeze : \E j \in 1..(k - 1) : log[j] = Ev("push", "squeezeDrips", i)

\* The call of a step of the body has been appended before position k.
AppendedBefore(step, k) == \E j \in 1..(k - 1) : log[j] = Ev("push", step, 0)

\* C11: in a createCollectFlow call that reaches its end, the receiveDrips
\* and split validators and encoders are called once unless the step is
\* skipped and never when it is, the collect validator is called once, and
\* each validator is called right before its step's encoder is requested
\* (for collect: before the driver's factory and then the encoder) and after
\* the calls of the steps before it have been appended (stated for requests
\* that all pass validation).
C11_ValidatorsPerStep ==
    (IsCollect /\ Returned /\ AllRequestsValid) =>
        /\ Count(Validated("receiveDrips")) = Opt(skipReceive)
        /\ Count(Invoked("receiveDrips")) = Opt(skipReceive)
        /\ Count(Validated("split")) = Opt(skipSplit)
        /\ Count(Invoked("split")) = Opt(skipSplit)
        /\ Count(Validated("collect")) = 1
        /\ Count(Invoked("collect")) = 1
        /\ \A k \in Idx(Validated("receiveDrips")) :
            /\ log[k + 1] = Invoked("receiveDrips")
            /\ SqueezeCallsAppendedBefore(k)
        /\ \A k \in Idx(Validated("split")) :
            /\ log[k + 1] = Invoked("split")
            /\ SqueezeCallsAppendedBefore(k)
            /\ ~skipReceive => AppendedBefore("receiveDrips", k)
        /\ \A k \in Idx(Validated("collect")) :
            /\ log[k + 1] = Invoked("AddressDriverTxFactory.create")
            /\ Precedes(Validated("collect"), Invoked("collect"))
            /\ SqueezeCallsAppendedBefore(k)
            /\ ~skipReceive => AppendedBefore("receiveDrips", k)
            /\ ~skipSplit => AppendedBefore("split", k)

----------------------------------------------------------------------------
\* DripsSubgraph/utils: sortDripsSetEvents, deduplicateArray and
\* reconcileDripsSetReceivers.
\*
\* A behaviour of SpecReconcile holds two calls of reconcileDripsSetReceivers:
\* the first on an event log, the second on the same log in the same or the
\* opposite order (every order a log of two events has).
\* sortDripsSetEvents is exported too, and the caller may call it on either
\* array before reconciling it.  Each call is one action: the functions are
\* synchronous.

\* The longest event log.
MaxEvents == 2

\* interface DripsReceiverSeenEvent.  The entries "a" and "a2" carry the same
\* config under different ids, as two events reporting the same receiver do.
DripsReceiverSeenEvent(id, receiverUserId, config) ==
    [id |-> id, receiverUserId |-> receiverUserId, config |-> config]

SeenLists ==
    LET a  == DripsReceiverSeenEvent("a", "r1", 10)
        a2 == DripsReceiverSeenEvent("a2", "r1", 10)
        b  == DripsReceiverSeenEvent("b", "r2", 20)
    IN {<<>>, <<a>>, <<a2>>, <<b>>, <<a, b>>}

\* The fields of a DripsSetEvent the functions read.
RequiredFields == {"blockTimestamp", "receiversHash", "dripsReceiverSeenEvents"}

\* A DripsSetEvent.  `missing` names the fields the record lacks; the value
\* the record carries for such a field here is not read.
DripsSetEvent(id, blockTimestamp, receiversHash, seen, missing) ==
    [id |-> id, blockTimestamp |-> blockTimestamp, receiversHash |-> receiversHash,
     dripsReceiverSeenEvents |-> seen, missing |-> missing]

\* The events drawn for position id of a log: the well-formed ones, and one
\* record per required field that lacks it.
DripsSetEvents(id) ==
    {DripsSetEvent(id, t, h, sl, {}) : t \in {1, 2}, h \in {"h1", "h2"}, sl \in SeenLists}
    \cup {DripsSetEvent(id, 1, "h1", <<DripsReceiverSeenEvent("a", "r1", 10)>>, {f}) :
            f \in RequiredFields}

\* The event logs: the event at position i has id i.
EventLogs ==
    UNION {{[i \in 1..n |-> [f[i] EXCEPT !.id = i]] : f \in [1..n -> DripsSetEvents(0)]} :
             n \in 0..MaxEvents}

WellFormed(events) == \A i \in DOMAIN events : events[i].missing = {}

\* The rearrangements of an array.
Rearrangements(array) ==
    LET n == Len(array) IN
    {[i \in 1..n |-> array[p[i]]] : p \in {q \in [1..n -> 1..n] : \A i, j \in 1..n : q[i] = q[j] => i = j}}

\* Number(a.blockTimestamp) - Number(b.blockTimestamp); a record without the
\* field gives NaN, which the sort takes as +0.
compare(a, b) ==
    IF "blockTimestamp" \in a.missing \cup b.missing THEN 0
    ELSE a.blockTimestamp - b.blockTimestamp

\* The comparator is consistent for the events: comparing equal is transitive
\* (the other conditions hold for any difference of numbers).
comparable(events) ==
    \A i, j, k \in DOMAIN events :
        (compare(events[i], events[j]) = 0 /\ compare(events[j], events[k]) = 0)
            => compare(events[i], events[k]) = 0

\* Mutant: an unstable sort, an element goes before those that compare equal.
RECURSIVE insertSorted_unstable(_, _)
insertSorted_unstable(sorted, e) ==
    IF sorted = <<>> THEN <<e>>
    ELSE LET last == sorted[Len(sorted)] IN
         IF compare(last, e) < 0 THEN Append(sorted, e)
         ELSE Append(insertSorted_unstable(SubSeq(sorted, 1, Len(sorted) - 1), e), last)

\* Array.prototype.sort is stable: an element goes behind those that do not
\* compare greater.
RECURSIVE insertSorted(_, _)
insertSorted(sorted, e) ==
    IF sorted = <<>> THEN <<e>>
    ELSE LET last == sorted[Len(sorted)] IN
         IF compare(last, e) <= 0 THEN Append(sorted, e)
         ELSE Append(insertSorted(SubSeq(sorted, 1, Len(sorted) - 1), e), last)

\* Mutant: the events are left in the order they were passed.
sortDripsSetEvents_unsorted(events) == events

RECURSIVE sortDripsSetEvents(_)
sortDripsSetEvents(events) ==
    IF events = <<>> THEN <<>>
    ELSE insertSorted(sortDripsSetEvents(SubSeq(events, 1, Len(events) - 1)),
                      events[Len(events)])

\* What the sort can leave in the array: the stable order, or, when NaN
\* results make the comparator inconsistent, an order the engine chooses.
sortOutcomes(events) ==
    IF comparable(events) THEN {sortDripsSetEvents(events)} ELSE Rearrangements(events)

\* The receiversHash read from a record; a record without one gives undefined.
hashOf(event) ==
    IF "receiversHash" \in event.missing THEN "undefined" ELSE event.receiversHash

\* The distinct hashes in first-seen order.
RECURSIVE receiversHashes(_)
receiversHashes(sorted) ==
    IF sorted = <<>> THEN <<>>
    ELSE LET acc == receiversHashes(SubSeq(sorted, 1, Len(sorted) - 1))
             h   == hashOf(sorted[Len(sorted)])
         IN IF \E k \in DOMAIN acc : acc[k] = h THEN acc ELSE Append(acc, h)

\* Mutant: the entries of the latest event of the hash replace the earlier
\* ones instead of joining them.
RECURSIVE seenOf_latestEventOnly(_, _)
seenOf_latestEventOnly(sorted, receiversHash) ==
    IF sorted = <<>> THEN <<>>
    ELSE LET event == sorted[Len(sorted)] IN
         IF hashOf(event) = receiversHash THEN event.dripsReceiverSeenEvents
         ELSE seenOf_latestEventOnly(SubSeq(sorted, 1, Len(sorted) - 1), receiversHash)

\* The seen entries of the events that carry the hash, in the events' order.
RECURSIVE seenOf(_, _)
seenOf(sorted, receiversHash) ==
    IF sorted = <<>> THEN <<>>
    ELSE LET accc  == seenOf(SubSeq(sorted, 1, Len(sorted) - 1), receiversHash)
             event == sorted[Len(sorted)]
         IN IF hashOf(event) = receiversHash THEN accc \o event.dripsReceiverSeenEvents
            ELSE accc

\* [...new Map(array.map((item) => [item[key], item])).values()]: one item per
\* key, at the place the key came first, and it is the last item of that key.
RECURSIVE firstSeenKeys(_, _)
firstSeenKeys(array, key) ==
    IF array = <<>> THEN <<>>
    ELSE LET acc == firstSeenKeys(SubSeq(array, 1, Len(array) - 1), key)
             k   == array[Len(array)][key]
         IN IF \E j \in DOMAIN acc : acc[j] = k THEN acc ELSE Append(acc, k)

lastWith(array, key, k) ==
    array[CHOOSE i \in DOMAIN array :
            /\ array[i][key] = k
            /\ \A j \in DOMAIN array : array[j][key] = k => j <= i]

\* Mutant: nothing is removed.
deduplicateArray_allKept(array, key) == array

\* deduplicateArray: the Map keeps a key where it first came and the item
\* that came last for it.
deduplicateArray(array, key) ==
    LET keys == firstSeenKeys(array, key) IN
    [j \in DOMAIN keys |-> lastWith(array, key, keys[j])]

\* dripsReceiverSeenEventsByReceiversHash
dripsReceiverSeenEventsByReceiversHash(sorted) ==
    LET hashes == receiversHashes(sorted) IN
    [h \in {hashes[k] : k \in DOMAIN hashes} |->
        deduplicateArray(seenOf(sorted, h), "config")]

\* byHash[receiversHash] ?? []
currentReceiversOf(byHash, receiversHash) ==
    IF receiversHash \in DOMAIN byHash THEN byHash[receiversHash] ELSE <<>>

\* Mutant: the reconstructed list also replaces the event's own entries.
withCurrentReceivers_entriesReplaced(dripsSetEvent, currentReceivers) ==
    [currentReceivers |-> currentReceivers]
        @@ [dripsSetEvent EXCEPT !.dripsReceiverSeenEvents = currentReceivers]

\* { ...dripsSetEvent, currentReceivers }
withCurrentReceivers(dripsSetEvent, currentReceivers) ==
    [currentReceivers |-> currentReceivers] @@ dripsSetEvent

NotCalled == [kind |-> "pending", list |-> <<>>]

Returns(list) == [kind |-> "list", list |-> list]

\* Spreading the dripsReceiverSeenEvents a record lacks throws a TypeError.
Throws == [kind |-> "TypeError", list |-> <<>>]

\* reconcileDripsSetReceivers on the array as the sort has left it.
reconcileDripsSetReceivers(sorted) ==
    IF \E i \in DOMAIN sorted : "dripsReceiverSeenEvents" \in sorted[i].missing
    THEN Throws
    ELSE LET byHash == dripsReceiverSeenEventsByReceiversHash(sorted) IN
         Returns([i \in DOMAIN sorted |->
                    withCurrentReceivers(sorted[i], currentReceiversOf(byHash, hashOf(sorted[i])))])

presetVars == <<fn, payload, skipReceive, skipSplit, failing, pc, sq, flow,
                setDripsTx, outcome, log>>

\* No preset is called in a behaviour of the subgraph utilities.
PresetsIdle ==
    /\ fn = "createCollectFlow"
    /\ payload = [kind |-> "undefined"]
    /\ skipReceive = FALSE
    /\ skipSplit = FALSE
    /\ failing = {}
    /\ pc = "start"
    /\ sq = <<>>
    /\ flow = <<>>
    /\ setDripsTx = NoTx
    /\ outcome = Pending
    /\ log = <<>>

\* The caller holds an event log twice: in one order, and in that order or
\* the opposite one.
InitReconcile ==
    /\ PresetsIdle
    /\ \E l \in EventLogs : \E p \in {l, Reversed(l)} : dripsSetEvents = <<l, p>>
    /\ passed = dripsSetEvents
    /\ reconciled = <<NotCalled, NotCalled>>
    /\ parked = <<>>
    /\ cur = 1
    /\ NoHubClient
    /\ NoCodec

\* sortDripsSetEvents(dripsSetEvents[c]) called on its own: Array.prototype.sort
\* sorts the caller's array in place and returns that same array.  The call
\* is taken on an array that has not been reconciled: the reconciler leaves
\* the array sorted.
SortDripsSetEvents(c) ==
    /\ reconciled[c] = NotCalled
    /\ \E sorted \in sortOutcomes(dripsSetEvents[c]) :
        dripsSetEvents' = [dripsSetEvents EXCEPT ![c] = sorted]
    /\ UNCHANGED <<passed, reconciled, presetVars, concurrentVars, hubVars, codecVars>>

\* reconcileDripsSetReceivers(dripsSetEvents[c]): the array is sorted in
\* place and the reconciled events are built from it.
Reconcile(c) ==
    /\ reconciled[c] = NotCalled
    /\ \E sorted \in sortOutcomes(dripsSetEvents[c]) :
        /\ dripsSetEvents' = [dripsSetEvents EXCEPT ![c] = sorted]
        /\ reconciled' = [reconciled EXCEPT ![c] = reconcileDripsSetReceivers(sorted)]
    /\ UNCHANGED <<passed, presetVars, concurrentVars, hubVars, codecVars>>

NextReconcile ==
    \/ \E c \in 1..2 : Reconcile(c)
    \/ \E c \in 1..2 : SortDripsSetEvents(c)

SpecReconcile == InitReconcile /\ [][NextReconcile]_vars

----------------------------------------------------------------------------
\* reconcileDripsSetReceivers: properties.

ReconcileCalls == 1..2

\* Call c has returned its list.
Reconciled(c) == reconciled[c].kind = "list"

Elements(seq) == {seq[k] : k \in DOMAIN seq}

Configs(entries) == {entries[k].config : k \in DOMAIN entries}

\* The configs of all seen entries of all events of a log that carry a hash.
ConfigsSeenUnder(events, receiversHash) ==
    UNION {Configs(events[k].dripsReceiverSeenEvents) :
             k \in {j \in DOMAIN events : events[j].receiversHash = receiversHash}}

\* C12: for a well-formed log, the configs of every output event's
\* currentReceivers are exactly the configs of the seen entries of all input
\* events with the output event's receiversHash, whatever their timestamps.
C12_UnionAcrossWholeLog ==
    \A c \in ReconcileCalls : (Reconciled(c) /\ WellFormed(passed[c])) =>
        \A k \in DOMAIN reconciled[c].list :
            LET e == reconciled[c].list[k] IN
            Configs(e.currentReceivers) = ConfigsSeenUnder(passed[c], e.receiversHash)

\* Two events of one hash, the later reporting only config 10 and the earlier
\* only config 20, both came out with both configs.
C12_Witness ==
    /\ Reconciled(1) /\ WellFormed(passed[1])
    /\ Len(passed[1]) = 2
    /\ passed[1][1].receiversHash = passed[1][2].receiversHash
    /\ passed[1][1].blockTimestamp > passed[1][2].blockTimestamp
    /\ Configs(passed[1][1].dripsReceiverSeenEvents) = {10}
    /\ Configs(passed[1][2].dripsReceiverSeenEvents) = {20}
    /\ \A k \in 1..2 : Configs(reconciled[1].list[k].currentReceivers) = {10, 20}

\* The two calls of a behaviour are given the same events (told apart by
\* id), the second in a rearranged order.
SingleHash(events) ==
    \A i, j \in DOMAIN events : events[i].receiversHash = events[j].receiversHash

DistinctTimestamps(events) ==
    \A i, j \in DOMAIN events :
        i # j => events[i].blockTimestamp # events[j].blockTimestamp

\* The output event of call c that stems from the input event with the id.
OutputOf(c, id) ==
    LET list == reconciled[c].list IN
    list[CHOOSE k \in DOMAIN list : list[k].id = id]

SameLogPermuted ==
    /\ Reconciled(1) /\ Reconciled(2)
    /\ WellFormed(passed[1]) /\ SingleHash(passed[1])

\* C13 as stated: for events sharing one receiversHash, reconciling any
\* permutation gives every resulting event the same currentReceivers list,
\* entry for entry, also when events share a blockTimestamp and when entries
\* share a config.
C13_SameListUnderPermutation ==
    SameLogPermuted =>
        \A i \in DOMAIN passed[1] :
            OutputOf(1, i).currentReceivers = OutputOf(2, i).currentReceivers

\* C13 amended: for events sharing one receiversHash, reconciling any
\* permutation gives every resulting event a currentReceivers list with the
\* same set of configs; the lists are identical, entry for entry, when no two
\* events share a blockTimestamp.
C13_SameConfigsUnderPermutation ==
    SameLogPermuted =>
        \A i \in DOMAIN passed[1] :
            /\ Configs(OutputOf(1, i).currentReceivers)
                 = Configs(OutputOf(2, i).currentReceivers)
            /\ DistinctTimestamps(passed[1]) =>
                 OutputOf(1, i).currentReceivers = OutputOf(2, i).currentReceivers

\* Two events of one hash with different timestamps and different entries
\* were reconciled in both orders and every event got the same two entries.
C13_Witness ==
    /\ SameLogPermuted
    /\ Len(passed[1]) = 2
    /\ passed[2] # passed[1]
    /\ DistinctTimestamps(passed[1])
    /\ passed[1][1].blockTimestamp > passed[1][2].blockTimestamp
    /\ Len(OutputOf(1, 1).currentReceivers) = 2
    /\ \A i \in 1..2 :
         OutputOf(1, i).currentReceivers = OutputOf(2, i).currentReceivers

\* Call c has ended, with a list or with an error.
ReconcileEnded(c) == reconciled[c] # NotCalled

\* Where the event with the id stood in a list of events.
PositionIn(events, id) == CHOOSE k \in DOMAIN events : events[k].id = id

\* C14: the output is ordered by blockTimestamp ascending, and two events
\* with equal blockTimestamp keep the relative order they had in the input
\* as it was passed.
C14_StableAscending ==
    \A c \in ReconcileCalls : (Reconciled(c) /\ WellFormed(passed[c])) =>
        LET list == reconciled[c].list IN
        \A i, j \in DOMAIN list : i < j =>
            /\ list[i].blockTimestamp <= list[j].blockTimestamp
            /\ list[i].blockTimestamp = list[j].blockTimestamp =>
                 PositionIn(passed[c], list[i].id) < PositionIn(passed[c], list[j].id)

\* Two events with one blockTimestamp were passed in both orders, and each
\* call returned them in the order it was given.
C14_Witness ==
    /\ Reconciled(1) /\ Reconciled(2)
    /\ WellFormed(passed[1]) /\ Len(passed[1]) = 2
    /\ passed[1][1].blockTimestamp = passed[1][2].blockTimestamp
    /\ passed[2] = <<passed[1][2], passed[1][1]>>
    /\ reconciled[1].list[1].id = 1 /\ reconciled[1].list[2].id = 2
    /\ reconciled[2].list[1].id = 2 /\ reconciled[2].list[2].id = 1

\* An output event without the field the reconciler adds.
WithoutCurrentReceivers(event) ==
    [f \in DOMAIN event \ {"currentReceivers"} |-> event[f]]

\* C15: the output has one event per input event: it has the input's length,
\* and its events, with currentReceivers removed, are the input events, each
\* exactly once, with every original field unchanged.
C15_OneOutputPerInput ==
    \A c \in ReconcileCalls : Reconciled(c) =>
        LET list == reconciled[c].list IN
        /\ Len(list) = Len(passed[c])
        /\ \A i, j \in DOMAIN list : i # j => list[i].id # list[j].id
        /\ \A k \in DOMAIN list :
             /\ "currentReceivers" \in DOMAIN list[k]
             /\ \E i \in DOMAIN passed[c] :
                  WithoutCurrentReceivers(list[k]) = passed[c][i]

\* Two events of one hash, passed latest first, came out as two events whose
\* currentReceivers differ from the entries each event reported.
C15_Witness ==
    /\ Reconciled(1) /\ WellFormed(passed[1]) /\ Len(passed[1]) = 2
    /\ passed[1][1].blockTimestamp > passed[1][2].blockTimestamp
    /\ Len(reconciled[1].list) = 2
    /\ \A k \in 1..2 :
         reconciled[1].list[k].currentReceivers
             # reconciled[1].list[k].dripsReceiverSeenEvents

\* C16: a log with a record that misses blockTimestamp, receiversHash or its
\* list of seen entries makes the call fail as a whole: it never returns a
\* list.
C16_MalformedFails ==
    \A c \in ReconcileCalls :
        (ReconcileEnded(c) /\ ~WellFormed(passed[c])) => ~Reconciled(c)

\* C17: after a call on a well-formed log the caller's list holds the same
\* events in the same order as before the call.
C17_InputUntouched ==
    \A c \in ReconcileCalls :
        (ReconcileEnded(c) /\ WellFormed(passed[c])) => dripsSetEvents[c] = passed[c]

----------------------------------------------------------------------------
\* AddressDriverPresets: what the encoders are handed and what the batch holds.

\* C19: the setDrips encoder of createNewStreamFlow is handed currentReceivers
\* and newReceivers exactly as the caller supplied them: same entries, same
\* order, nothing dropped.
C19_ReceiversHandedAsSupplied ==
    (IsStream /\ setDripsTx # NoTx) =>
        /\ setDripsTx.call = "setDrips"
        /\ setDripsTx.args[2] = payload.currentReceivers
        /\ setDripsTx.args[4] = payload.newReceivers

\* A caller supplied currentReceivers in descending userId order and
\* newReceivers with a repeated entry, and the setDrips encoder has answered.
C19_Witness ==
    /\ IsStream /\ setDripsTx # NoTx
    /\ Len(payload.currentReceivers) = 2
    /\ payload.currentReceivers[1].userId = "2"
    /\ payload.currentReceivers[2].userId = "1"
    /\ Len(payload.newReceivers) = 2
    /\ payload.newReceivers[1] = payload.newReceivers[2]
    /\ setDripsTx.args[2][1].userId = "2"
    /\ Len(setDripsTx.args[4]) = 2

\* The call encoders (the factories' create calls return encoders, not calls).
Encoders == {"squeezeDrips", "receiveDrips", "split", "collect", "setDrips", "emitUserMetadata"}

\* The positions of the log at which an encoder returned its descriptor.
EncoderResolutions ==
    {k \in DOMAIN log : log[k].ev = "resolve" /\ log[k].step \in Encoders}

\* The descriptor the encoder returned at such a position.
EncoderResult(k) ==
    CASE log[k].step = "squeezeDrips" -> squeezeTx(log[k].idx)
      [] log[k].step = "receiveDrips" -> receiveTx
      [] log[k].step = "split" -> splitTx
      [] log[k].step = "collect" -> collectTx
      [] log[k].step = "setDrips" -> newSetDripsTx
      [] log[k].step = "emitUserMetadata" -> emitUserMetadataTx

\* C20: every element of a returned batch is a descriptor an encoder returned
\* during the call, unmodified, and every descriptor an encoder returned
\* during the call is in the batch exactly once.
C20_BatchIsTheEncoderResults ==
    Returned =>
        /\ \A p \in DOMAIN flow : \E k \in EncoderResolutions : flow[p] = EncoderResult(k)
        /\ \A k \in EncoderResolutions :
             Cardinality({p \in DOMAIN flow : flow[p] = EncoderResult(k)}) = 1
        /\ Len(flow) = Cardinality(EncoderResolutions)

\* A collect flow with a squeeze request and no step skipped returned the four
\* descriptors its encoders produced.
C20_Witness ==
    /\ IsCollect /\ Returned
    /\ NumSqueeze = 1 /\ ~skipReceive /\ ~skipSplit
    /\ Cardinality(EncoderResolutions) = 4
    /\ Len(flow) = 4

----------------------------------------------------------------------------
\* Two preset calls in flight at once.  The functions are static and keep
\* everything in parameters and locals, so each call has its own copy of the
\* variables of a call; the event loop runs the continuation of one call at a
\* time, in any order.

\* The most squeeze requests of a call that runs beside another one.
MaxConcurrentSqueeze == 1

\* The variables of the call that is running, as one value.
Running ==
    [fn |-> fn, payload |-> payload, skipReceive |-> skipReceive,
     skipSplit |-> skipSplit, failing |-> failing, pc |-> pc, sq |-> sq,
     flow |-> flow, setDripsTx |-> setDripsTx, outcome |-> outcome, log |-> log]

\* A call that has not run yet.
NotStarted(f, p, noReceive, noSplit) ==
    [fn |-> f, payload |-> p, skipReceive |-> noReceive, skipSplit |-> noSplit,
     failing |-> {}, pc |-> "start",
     sq |-> [i \in DOMAIN squeezeList(p) |-> "notStarted"],
     flow |-> <<>>, setDripsTx |-> NoTx, outcome |-> Pending, log |-> <<>>]

\* The payload as caller c supplies it: each caller has its own token and
\* its own address to transfer to.
OfCaller(p, c) ==
    [tokenAddress |-> IF c = 1 THEN "token1" ELSE "token2",
     transferToAddress |-> IF c = 1 THEN "to1" ELSE "to2"] @@ p

\* The calls caller c can make beside another call: inputs every validator
\* accepts, with receive and split both asked for or both skipped.
ConcurrentCalls(c) ==
    {NotStarted("createNewStreamFlow",
                OfCaller(NewStreamFlowPayload("connected", <<>>, <<>>, <<>>), c),
                FALSE, FALSE)}
    \cup {NotStarted("createCollectFlow",
                     OfCaller(CollectFlowPayload("connected", TRUE, l), c), skip, skip) :
            l \in {sl \in SqueezeArgsLists :
                     /\ Len(sl) <= MaxConcurrentSqueeze
                     /\ \A i \in DOMAIN sl : sl[i].valid /\ sl[i].userId = "user"},
            skip \in BOOLEAN}

\* Mutant: the array `flow` is one array shared by the calls.
Resume_sharedFlow(suspended, running) == [suspended EXCEPT !.flow = running.flow]

\* The locals a call finds when it goes on: the ones it had when it was
\* suspended, whatever the call that ran meanwhile did.
Resume(suspended, running) == suspended

InitConcurrent ==
    /\ cur = 1
    /\ \E a \in ConcurrentCalls(1) :
        /\ fn = a.fn /\ payload = a.payload
        /\ skipReceive = a.skipReceive /\ skipSplit = a.skipSplit
        /\ failing = a.failing /\ pc = a.pc /\ sq = a.sq /\ flow = a.flow
        /\ setDripsTx = a.setDripsTx /\ outcome = a.outcome /\ log = a.log
    /\ parked \in ConcurrentCalls(2)
    /\ dripsSetEvents = <<>>
    /\ passed = <<>>
    /\ reconciled = <<>>
    /\ NoHubClient
    /\ NoCodec

\* A call has something left to run: it has not been made, it is suspended at
\* an await, or a forEach callback of it is.
HasContinuation(call) ==
    \/ call.pc # "done"
    \/ \E i \in DOMAIN call.sq : call.sq[i] = "pending"

\* The event loop turns to the other call.
Switch ==
    LET r == Resume(parked, Running) IN
    /\ HasContinuation(parked)
    /\ fn' = r.fn /\ payload' = r.payload
    /\ skipReceive' = r.skipReceive /\ skipSplit' = r.skipSplit
    /\ failing' = r.failing /\ pc' = r.pc /\ sq' = r.sq /\ flow' = r.flow
    /\ setDripsTx' = r.setDripsTx /\ outcome' = r.outcome /\ log' = r.log
    /\ parked' = Running
    /\ cur' = 3 - cur
    /\ UNCHANGED <<subgraphVars, hubVars, codecVars>>

NextConcurrent == Next \/ Switch

SpecConcurrent == InitConcurrent /\ [][NextConcurrent]_vars

\* The descriptors the encoders returned up to position n of the log, in the
\* order they returned them.
RECURSIVE EncoderResultsUpTo(_)
EncoderResultsUpTo(n) ==
    IF n = 0 THEN <<>>
    ELSE IF n \in EncoderResolutions
         THEN Append(EncoderResultsUpTo(n - 1), EncoderResult(n))
         ELSE EncoderResultsUpTo(n - 1)

\* The token a descriptor names, for the calls that name one.
TokenOf(descriptor) ==
    IF descriptor.call \in {"collect", "setDrips"} THEN descriptor.args[1]
    ELSE descriptor.args[2]

\* C18: with two calls in flight at once, the batch a call returns holds only
\* descriptors built from that call's own payload, and has the content and
\* order the call gives it when it runs alone: the descriptors its own
\* encoder requests returned, in the order they returned.  (The formula
\* speaks of the running call; either call is the running one in turn.)
C18_ConcurrentCallsIndependent ==
    Returned =>
        /\ flow = EncoderResultsUpTo(Len(log))
        /\ \A p \in DOMAIN flow :
             flow[p].call # "emitUserMetadata" => TokenOf(flow[p]) = payload.tokenAddress

\* A createCollectFlow call returned its batch of four while the other
\* caller's createCollectFlow call, started before, was suspended half-way
\* with a descriptor already in its own array.
C18_Witness ==
    /\ parked # <<>>
    /\ IsCollect /\ Returned /\ Len(flow) = 4
    /\ parked.fn = "createCollectFlow"
    /\ parked.pc = "awaitSplit"
    /\ Len(parked.flow) >= 1
    /\ parked.payload.tokenAddress # payload.tokenAddress

----------------------------------------------------------------------------
\* Termination.  The factories and encoders are assumed to settle every
\* request, and the call itself to be made: every step that can happen
\* eventually does.

SpecFair == Spec /\ WF_vars(Next)

\* The squeeze constructions of the call whose encoder has not settled.
PendingSqueezeConstructions == {i \in DOMAIN sq : sq[i] = "pending"}

\* C21: if every factory and encoder request settles, the call ends with
\* exactly one outcome, a batch or an error, and a batch it has returned is
\* complete: no construction of the call is still to append to it.
C21_TerminatesWithOneOutcome ==
    /\ <>(outcome # Pending)
    /\ [](outcome.kind \in {"pending", "batch", "error"})
    /\ [](Returned => PendingSqueezeConstructions = {})

\* The termination half of C21 on its own.
EventuallySettled == <>(outcome # Pending)

\* C25: once createCollectFlow has resolved, the batch it returned never
\* changes: no step of the program appends to it afterwards.
C25_ReturnedBatchFrozen ==
    [][(IsCollect /\ Returned) => flow' = flow]_vars

\* C26: every squeezeDrips call the encoder is asked for carries the user id
\* and the token address that the squeeze validator of the same request was
\* given.
C26_EncodedWhatWasValidated ==
    IsCollect =>
        \A i \in DOMAIN sq :
            Happened(Ev("invoke", "squeezeDrips", i)) =>
                /\ squeezeTx(i).args[1] = validatedSqueezeInput(i)[1]
                /\ squeezeTx(i).args[2] = validatedSqueezeInput(i)[2]

\* C27: in every output no currentReceivers list holds two entries with the
\* same config, and two output events with the same receiversHash carry the
\* same currentReceivers list, entry for entry.
C27_OneListPerHash ==
    \A c \in ReconcileCalls : (Reconciled(c) /\ WellFormed(passed[c])) =>
        LET list == reconciled[c].list IN
        /\ \A k \in DOMAIN list :
             \A i, j \in DOMAIN list[k].currentReceivers :
                 i # j => list[k].currentReceivers[i].config
                            # list[k].currentReceivers[j].config
        /\ \A k, l \in DOMAIN list :
             list[k].receiversHash = list[l].receiversHash
                 => list[k].currentReceivers = list[l].currentReceivers

\* A hash recurred at two timestamps, its events reporting entries that share
\* a config, and both output events carry the same two-entry list.
C27_Witness ==
    /\ Reconciled(1) /\ WellFormed(passed[1]) /\ Len(passed[1]) = 2
    /\ passed[1][1].receiversHash = passed[1][2].receiversHash
    /\ passed[1][1].blockTimestamp # passed[1][2].blockTimestamp
    /\ Configs(passed[1][1].dripsReceiverSeenEvents)
         \cap Configs(passed[1][2].dripsReceiverSeenEvents) # {}
    /\ Len(reconciled[1].list[1].currentReceivers) = 2
    /\ reconciled[1].list[1].currentReceivers = reconciled[1].list[2].currentReceivers

----------------------------------------------------------------------------
\* DripsHubClient: create, then calls of its methods, one at a time.  The
\* provider, the address validator and the DripsHub contract are external: the
\* provider reports a chain or fails, the validator accepts an address or
\* throws, a contract request resolves or rejects.

\* The most method calls made on one client.
MaxHubCalls == 2

\* The chains for which chainIdToNetworkPropertiesMap holds a
\* CONTRACT_DRIPS_HUB address: goerli.
SupportedChainIds == {5}

\* The providers handed to create: none, or one connected to a chain.
Providers == {NoProvider} \cup {[defined |-> TRUE, chainId |-> c] : c \in {1, 5}}

\* chainIdToNetworkPropertiesMap[network.chainId]
networkPropertiesOf(chainId) ==
    IF chainId \in SupportedChainIds
    THEN [defined |-> TRUE, CONTRACT_DRIPS_HUB |-> "0xDripsHub"]
    ELSE [defined |-> FALSE, CONTRACT_DRIPS_HUB |-> "undefined"]

\* The token addresses (asset ids) a caller supplies; validateAddress throws
\* on the second.
TokenAddresses == {"0xToken", "notAnAddress"}

validAddress(address) == address = "0xToken"

\* The methods that call validators.validateAddress, and those that do not.
ValidatingMethods ==
    {"getCollectableAll", "getSplittable", "getCollectable", "getDripsState", "getBalanceAt"}

SqueezeMethods == {"getSqueezableDrips", "squeezeDrips"}

invalidArgument == [code |-> "INVALID_ARGUMENT", from |-> "provider"]

unsupportedNetwork == [code |-> "UNSUPPORTED_NETWORK", from |-> "provider"]

invalidAddress == [code |-> "INVALID_ADDRESS", from |-> "validateAddress"]

HubFailed(err) == [kind |-> "error", error |-> err]

HubPending == [kind |-> "pending", error |-> NoError]

HubSettled(value) == [kind |-> value, error |-> NoError]

\* networkProperties?.CONTRACT_DRIPS_HUB is there
supported(properties) == properties.defined /\ properties.CONTRACT_DRIPS_HUB # "undefined"

\* DripsHubClient.create(provider), up to await provider.getNetwork()
Create ==
    /\ hubOutcome = NotCalledYet /\ hubPc = "idle"
    /\ hubCall' = [method |-> "create", args |-> <<provider>>]
    /\ IF ~provider.defined
       THEN /\ hubOutcome' = HubFailed(invalidArgument)
            /\ UNCHANGED <<hubPc, hubLog>>
       ELSE /\ hubPc' = "awaitNetwork"
            /\ hubLog' = Append(hubLog, <<"getNetwork">>)
            /\ hubOutcome' = HubPending
    /\ UNCHANGED <<provider, hubClient, hubCalls, presetVars, subgraphVars, concurrentVars, codecVars>>

\* await provider.getNetwork() settles; on a supported chain the client is
\* built and returned.
GetNetworkSettles ==
    /\ hubPc = "awaitNetwork"
    /\ hubPc' = "idle"
    /\ \E ok \in BOOLEAN :
        IF ~ok
        THEN /\ hubOutcome' = HubFailed(rejection("getNetwork"))
             /\ UNCHANGED hubClient
        ELSE LET networkProperties == networkPropertiesOf(provider.chainId) IN
             IF ~supported(networkProperties)
             THEN /\ hubOutcome' = HubFailed(unsupportedNetwork)
                  /\ UNCHANGED hubClient
             ELSE /\ hubClient' = [defined |-> TRUE,
                                   network |-> [chainId |-> provider.chainId],
                                   provider |-> provider,
                                   networkProperties |-> networkProperties,
                                   dripsHubContract |-> networkProperties.CONTRACT_DRIPS_HUB]
                  /\ hubOutcome' = HubSettled("client")
    /\ UNCHANGED <<provider, hubCall, hubLog, hubCalls, presetVars, subgraphVars, concurrentVars, codecVars>>

\* A method can be called: there is a client and no call is under way.
Callable == hubClient.defined /\ hubPc = "idle" /\ hubCalls < MaxHubCalls

\* The user ids a caller supplies.
UserIds == {"1", "2"}

\* return this.#dripsHubContract.method(...args), nothing before it
directCall(method, contractMethod, args) ==
    /\ hubCall' = [method |-> method, args |-> args]
    /\ hubCalls' = hubCalls + 1
    /\ hubLog' = <<<<"contract", contractMethod, args>>>>
    /\ hubPc' = "awaitContract"
    /\ hubOutcome' = HubPending
    /\ UNCHANGED <<provider, hubClient, presetVars, subgraphVars, concurrentVars, codecVars>>

\* Mutant: the contract is asked without asking the validator.
validatedCall_notChecked(method, contractMethod, args, erc20TokenAddress) ==
    directCall(method, contractMethod, args)

\* validators.validateAddress(erc20TokenAddress); return
\* this.#dripsHubContract.method(...args)
validatedCall(method, contractMethod, args, erc20TokenAddress) ==
    /\ hubCall' = [method |-> method, args |-> args]
    /\ hubCalls' = hubCalls + 1
    /\ IF ~validAddress(erc20TokenAddress)
       THEN /\ hubLog' = <<<<"validateAddress", erc20TokenAddress>>>>
            /\ hubOutcome' = HubFailed(invalidAddress)
            /\ UNCHANGED hubPc
       ELSE /\ hubLog' = <<<<"validateAddress", erc20TokenAddress>>,
                           <<"contract", contractMethod, args>>>>
            /\ hubPc' = "awaitContract"
            /\ hubOutcome' = HubPending
    /\ UNCHANGED <<provider, hubClient, presetVars, subgraphVars, concurrentVars, codecVars>>

getCollectableAll ==
    /\ Callable
    /\ \E userId \in UserIds, erc20TokenAddress \in TokenAddresses :
        validatedCall("getCollectableAll", "collectableAll",
                  <<userId, erc20TokenAddress, <<"splitsReceiver">>>>, erc20TokenAddress)

getSplittable ==
    /\ Callable
    /\ \E userId \in UserIds, erc20TokenAddress \in TokenAddresses :
        validatedCall("getSplittable", "splittable", <<userId, erc20TokenAddress>>,
                  erc20TokenAddress)

getCollectable ==
    /\ Callable
    /\ \E userId \in UserIds, erc20TokenAddress \in TokenAddresses :
        validatedCall("getCollectable", "collectable", <<userId, erc20TokenAddress>>,
                  erc20TokenAddress)

getDripsState ==
    /\ Callable
    /\ \E userId \in UserIds, erc20TokenAddress \in TokenAddresses :
        validatedCall("getDripsState", "dripsState", <<userId, erc20TokenAddress>>,
                  erc20TokenAddress)

getBalanceAt ==
    /\ Callable
    /\ \E userId \in UserIds, erc20TokenAddress \in TokenAddresses :
        validatedCall("getBalanceAt", "balanceAt",
                  <<userId, erc20TokenAddress, <<"dripsReceiver">>, "timestamp">>,
                  erc20TokenAddress)

getSqueezableDrips ==
    /\ Callable
    /\ \E userId \in UserIds, assetId \in TokenAddresses :
        directCall("getSqueezableDrips", "squeezableDrips",
               <<userId, assetId, "senderId", "historyHash", <<"dripsHistory">>>>)

squeezeDrips ==
    /\ Callable
    /\ \E userId \in UserIds, assetId \in TokenAddresses :
        directCall("squeezeDrips", "squeezeDrips",
               <<userId, assetId, "senderId", "historyHash", <<"dripsHistory">>>>)

\* The promise of the contract method settles, and with it the promise the
\* client's method returned.
ContractSettles ==
    /\ hubPc = "awaitContract"
    /\ hubPc' = "idle"
    /\ \E ok \in BOOLEAN :
        hubOutcome' = IF ok THEN HubSettled("result") ELSE HubFailed(rejection("contract"))
    /\ UNCHANGED <<provider, hubClient, hubCall, hubLog, hubCalls,
                   presetVars, subgraphVars, concurrentVars, codecVars>>

InitHubClient ==
    /\ PresetsIdle
    /\ dripsSetEvents = <<>> /\ passed = <<>> /\ reconciled = <<>>
    /\ parked = <<>> /\ cur = 1
    /\ provider \in Providers
    /\ hubClient = NoClient
    /\ hubCall = NoCall
    /\ hubPc = "idle"
    /\ hubLog = <<>>
    /\ hubOutcome = NotCalledYet
    /\ hubCalls = 0
    /\ NoCodec

NextHubClient ==
    \/ Create
    \/ GetNetworkSettles
    \/ getCollectableAll
    \/ getSplittable
    \/ getCollectable
    \/ getDripsState
    \/ getBalanceAt
    \/ getSqueezableDrips
    \/ squeezeDrips
    \/ ContractSettles

SpecHubClient == InitHubClient /\ [][NextHubClient]_vars

----------------------------------------------------------------------------
\* DripsHubClient: properties.

\* The requests the call under way has made of the contract.
ContractRequests == {k \in DOMAIN hubLog : hubLog[k][1] = "contract"}

\* The token address (asset id) of the call under way: the second argument
\* of every method.
TokenArgument == hubCall.args[2]

CreateEnded == hubCall.method = "create" /\ hubOutcome.kind # "pending"

\* C23: create fails with an invalidArgument error when the provider is
\* missing or is connected to an unsupported chain, and returns no client
\* (stated for a provider that does report its network).
C23_CreateInvalidArgument ==
    (/\ CreateEnded
     /\ hubOutcome # HubFailed(rejection("getNetwork"))
     /\ ~provider.defined \/ provider.chainId \notin SupportedChainIds) =>
        /\ hubOutcome.kind = "error"
        /\ hubOutcome.error.code = "INVALID_ARGUMENT"
        /\ ~hubClient.defined

\* What holds of C23: no client comes of a missing provider or an
\* unsupported chain, and a missing provider gives invalidArgument.
CreateFailsWithoutClient ==
    (~provider.defined \/ provider.chainId \notin SupportedChainIds) =>
        /\ ~hubClient.defined
        /\ CreateEnded => hubOutcome.kind = "error"
        /\ (CreateEnded /\ ~provider.defined) => hubOutcome.error = invalidArgument

\* C24: getSqueezableDrips and squeezeDrips fail with an invalidAddress
\* error when the token address is not valid, and do not ask the contract.
C24_SqueezeMethodsValidateAddress ==
    (hubCall.method \in SqueezeMethods /\ ~validAddress(TokenArgument)) =>
        /\ ContractRequests = {}
        /\ hubOutcome = HubFailed(invalidAddress)

\* C28: in getCollectableAll, getSplittable, getCollectable, getDripsState
\* and getBalanceAt the token address is validated before the contract is
\* asked: when validation fails the contract method is never asked, when it
\* succeeds the method is asked exactly once, with the caller's arguments.
C28_ValidatedBeforeContract ==
    hubCall.method \in ValidatingMethods =>
        /\ hubLog[1] = <<"validateAddress", TokenArgument>>
        /\ IF validAddress(TokenArgument)
           THEN /\ Cardinality(ContractRequests) = 1
                /\ \A k \in ContractRequests : k > 1 /\ hubLog[k][3] = hubCall.args
           ELSE /\ ContractRequests = {}
                /\ hubOutcome = HubFailed(invalidAddress)

\* The second call on a client, getBalanceAt with a valid token address for
\* user 2, was validated, asked of the contract once and answered.
C28_Witness ==
    /\ hubCalls = 2
    /\ hubCall.method = "getBalanceAt"
    /\ hubCall.args[1] = "2"
    /\ validAddress(TokenArgument)
    /\ hubLog[2] = <<"contract", "balanceAt", hubCall.args>>
    /\ hubOutcome = HubSettled("result")

----------------------------------------------------------------------------
\* DripsReceiverConfiguration: toUint256 packs a receiver configuration into
\* one unsigned integer, fromUint256 unpacks it.  The fields lie in fixed bit
\* ranges, from the most significant: dripId, amountPerSec, start, duration.
\* The widths stand in, scaled down, for the ledger's.

BitsDripId == 2

BitsAmountPerSec == 3

BitsStart == 2

BitsDuration == 2

\* The width of a field.
Bits(field) ==
    CASE field = "dripId" -> BitsDripId
      [] field = "amountPerSec" -> BitsAmountPerSec
      [] field = "start" -> BitsStart
      [] field = "duration" -> BitsDuration

ConfigFields == {"dripId", "amountPerSec", "start", "duration"}

\* The configurations handed to toUint256: every field from 0 up to the
\* first value beyond its width.
Configs256 ==
    [dripId : 0..(2 ^ BitsDripId), amountPerSec : 0..(2 ^ BitsAmountPerSec),
     start : 0..(2 ^ BitsStart), duration : 0..(2 ^ BitsDuration)]

\* Every field fits its width.
InRange(c) == \A f \in ConfigFields : c[f] >= 0 /\ c[f] < 2 ^ Bits(f)

Computed(value) == [kind |-> "value", value |-> value]

OutOfRange == [kind |-> "OutOfRange", value |-> 0]

MalformedEncoding == [kind |-> "MalformedEncoding", value |-> 0]

\* Mutant: start and duration change places in the packed integer.
toUint256_startDurationSwapped(c) ==
    IF ~InRange(c) THEN OutOfRange
    ELSE Computed(((c.dripId * (2 ^ BitsAmountPerSec) + c.amountPerSec)
                      * (2 ^ BitsDuration) + c.duration) * (2 ^ BitsStart) + c.start)

\* toUint256: dripId, amountPerSec, start and duration shifted into place.
toUint256(c) ==
    IF ~InRange(c) THEN OutOfRange
    ELSE Computed(((c.dripId * (2 ^ BitsAmountPerSec) + c.amountPerSec)
                      * (2 ^ BitsStart) + c.start) * (2 ^ BitsDuration) + c.duration)

\* fromUint256: the fields masked out again; bits beyond dripId must be zero.
fromUint256(n) ==
    LET duration == n % (2 ^ BitsDuration)
        n1 == n \div (2 ^ BitsDuration)
        start == n1 % (2 ^ BitsStart)
        n2 == n1 \div (2 ^ BitsStart)
        amountPerSec == n2 % (2 ^ BitsAmountPerSec)
        dripId == n2 \div (2 ^ BitsAmountPerSec)
    IN IF dripId >= 2 ^ BitsDripId THEN MalformedEncoding
       ELSE Computed([dripId |-> dripId, amountPerSec |-> amountPerSec,
                      start |-> start, duration |-> duration])

InitCodec ==
    /\ PresetsIdle
    /\ dripsSetEvents = <<>> /\ passed = <<>> /\ reconciled = <<>>
    /\ parked = <<>> /\ cur = 1
    /\ NoHubClient
    /\ dripsConfig \in Configs256
    /\ packed = NotComputed
    /\ unpacked = NotComputed

\* toUint256(dripsConfig)
Pack ==
    /\ packed.kind = "none"
    /\ packed' = toUint256(dripsConfig)
    /\ UNCHANGED <<dripsConfig, unpacked, presetVars, subgraphVars, concurrentVars, hubVars>>

\* fromUint256 of what toUint256 gave
Unpack ==
    /\ packed.kind = "value"
    /\ unpacked.kind = "none"
    /\ unpacked' = fromUint256(packed.value)
    /\ UNCHANGED <<dripsConfig, packed, presetVars, subgraphVars, concurrentVars, hubVars>>

NextCodec == Pack \/ Unpack

SpecCodec == InitCodec /\ [][NextCodec]_vars

\* C22: for a configuration whose fields all lie inside their ranges,
\* fromUint256(toUint256(c)) is c; toUint256 fails with an out-of-range error
\* when a field value exceeds its width.
C22_CodecRoundTrip ==
    /\ (InRange(dripsConfig) /\ packed.kind # "none") => packed.kind = "value"
    /\ (InRange(dripsConfig) /\ unpacked.kind # "none") =>
           unpacked.kind = "value" /\ unpacked.value = dripsConfig
    /\ (~InRange(dripsConfig) /\ packed.kind # "none") => packed.kind = "OutOfRange"

\* A configuration with four different non-zero fields, amountPerSec at the
\* top of its range, came back from the round trip.
C22_Witness ==
    /\ dripsConfig.dripId = 1 /\ dripsConfig.start = 2 /\ dripsConfig.duration = 3
    /\ dripsConfig.amountPerSec = 2 ^ BitsAmountPerSec - 1
    /\ unpacked.kind = "value" /\ unpacked.value = dripsConfig

====
